---- MODULE Spec2Model ----
(***************************************************************************)
(* Model of the two analysis scripts of mobilitydcatap-study:              *)
(*   property-analysis/property_analysis.py        (DCATPropertyAnalyzer)   *)
(*   vocabulary-checker/dcat_vocabulary_checker.py (DCATVocabularyChecker)  *)
(* The SPARQL endpoint is the environment: every query is answered by a    *)
(* nondeterministic choice among a failure (execute_sparql returns None)   *)
(* and the result sets the bounds allow.                                    *)
(***************************************************************************)
EXTENDS Integers, Sequences, FiniteSets, TLC

VARIABLES
    script,            \* which program runs: one of the two scripts, or one classification
    pc,                \* position of the running script
    bindings,          \* rows of the catalog query still to be resolved
    catalog_entities,  \* the dict built by get_catalog_entities
    worklist,          \* (property, class) calls the main loop still has to make
    results,           \* DCATPropertyAnalyzer.results
    vocab_results,     \* DCATVocabularyChecker.results
    queries,           \* number of queries sent to the endpoint so far
    last,              \* the step taken last and the endpoint's answers in it
    printed,           \* messages of the run that matter to the claims
    values,            \* the list check_property_vocabulary builds from the value rows
    vocab_data,        \* the observation stored for that list
    vocab_info,        \* the label _get_vocabulary_info derives from the observation
    vocab_labels,      \* the labels the summary table and the extended report derive
    memo,              \* what the endpoint has answered to each query (repeatable endpoint)
    first_pass         \* the graph and the results at the end of the first of two passes

vars == <<script, pc, bindings, catalog_entities, worklist, results, vocab_results,
          queries, last, printed, values, vocab_data, vocab_info, vocab_labels,
          memo, first_pass>>

classifyVars == <<values, vocab_data, vocab_info, vocab_labels>>

passVars == <<memo, first_pass>>

(***************************************************************************)
(* Bounds and the universe of identifiers the endpoint may return.         *)
(***************************************************************************)
MaxRows == 2          \* rows in one result set
MaxExcess == 1        \* how far a returned count may exceed the entity list
MaxValues == 8        \* distinct values of one property in a classification

Catalogs == {"c1", "c2"}
Datasets == {"d1", "d2"}
Distributions == {"x1"}
Records == {"r1"}

SeqsUpTo(S, n) == UNION {[1..k -> S] : k \in 0..n}

(***************************************************************************)
(* execute_sparql: None on a request error, the parsed JSON otherwise.     *)
(* A reply is modelled by its result.results.bindings rows.                *)
(***************************************************************************)
Failure == [ok |-> FALSE, rows |-> <<>>]
Reply(rows) == [ok |-> TRUE, rows |-> rows]

CatalogRows == {[catalog |-> c] : c \in Catalogs}
DatasetRows == {[dataset |-> d] : d \in Datasets}
                 \cup {[dataset |-> d, distribution |-> x] : d \in Datasets, x \in Distributions}
RecordRows == {[record |-> r] : r \in Records}

execute_sparql(rowset, n) == {Failure} \cup {Reply(rows) : rows \in SeqsUpTo(rowset, n)}

\* the COUNT query: a failure, or its one row
CountReplies(entity_list) ==
    {Failure}
        \cup {Reply(<<[count |-> k]>>) : k \in 0..(Len(entity_list) + MaxExcess)}

(***************************************************************************)
(* get_catalog_entities                                                    *)
(***************************************************************************)
Contains(list, x) == \E i \in 1..Len(list) : list[i] = x

\* (changed) list.append(x) without the membership test
AppendAlways(list, x) == Append(list, x)

\* `if x not in list: list.append(x)`
AppendIfAbsent(list, x) == IF Contains(list, x) THEN list ELSE Append(list, x)

RECURSIVE CollectDatasets(_, _)
CollectDatasets(list, rows) ==
    IF rows = <<>> THEN list
    ELSE CollectDatasets(AppendIfAbsent(list, Head(rows).dataset), Tail(rows))

RECURSIVE CollectDistributions(_, _)
CollectDistributions(list, rows) ==
    IF rows = <<>> THEN list
    ELSE CollectDistributions(
            IF "distribution" \in DOMAIN Head(rows)
            THEN AppendIfAbsent(list, Head(rows).distribution)
            ELSE list,
            Tail(rows))

RECURSIVE CollectRecords(_, _)
CollectRecords(list, rows) ==
    IF rows = <<>> THEN list
    ELSE CollectRecords(AppendIfAbsent(list, Head(rows).record), Tail(rows))

\* the entry a catalog is given before its queries
NewEntry(catalog) ==
    [catalogs |-> <<catalog>>, datasets |-> <<>>, distributions |-> <<>>, records |-> <<>>]

\* (changed) only the datasets of rows with a distribution are kept
WithDatasetsOfDistributions(entry, dataset_result) ==
    IF dataset_result.ok
    THEN LET rows == SelectSeq(dataset_result.rows,
                               LAMBDA row : "distribution" \in DOMAIN row)
         IN  [entry EXCEPT !.datasets = CollectDatasets(entry.datasets, rows),
                           !.distributions = CollectDistributions(entry.distributions, rows)]
    ELSE entry

\* the entry after the dataset query
WithDatasets(entry, dataset_result) ==
    IF dataset_result.ok
    THEN [entry EXCEPT !.datasets = CollectDatasets(entry.datasets, dataset_result.rows),
                       !.distributions = CollectDistributions(entry.distributions,
                                                              dataset_result.rows)]
    ELSE entry

\* the entry after the record query
WithRecords(entry, record_result) ==
    IF record_result.ok
    THEN [entry EXCEPT !.records = CollectRecords(entry.records, record_result.rows)]
    ELSE entry

\* dict assignment d[k] = v
Put(d, k, v) == [x \in DOMAIN d \cup {k} |-> IF x = k THEN v ELSE d[x]]

EmptyDict == [x \in {} |-> 0]

\* (changed) the dict is created anew inside the loop
SetEntryInFreshDict(entities_of, catalog, entry) == [x \in {catalog} |-> entry]

\* catalog_entities[catalog] = entry
SetEntry(entities_of, catalog, entry) == Put(entities_of, catalog, entry)

(***************************************************************************)
(* DCATPropertyAnalyzer: the specification table and analyze_property.     *)
(* The table of _load_mobility_spec is cut to three entries, one per tier;  *)
(* its shape is kept: four classes in this order, dcat:CatalogRecord       *)
(* without a 'recommended' list, dct:publisher listed under two classes.   *)
(***************************************************************************)
ClassOrder == <<"dcat:Catalog", "dcat:Dataset", "dcat:Distribution", "dcat:CatalogRecord">>

mobility_spec ==
    [class \in {ClassOrder[i] : i \in 1..Len(ClassOrder)} |->
        CASE class = "dcat:Catalog" ->
                [mandatory |-> <<>>, recommended |-> <<>>, optional |-> <<>>]
          [] class = "dcat:Dataset" ->
                [mandatory |-> <<"dct:publisher">>, recommended |-> <<>>, optional |-> <<>>]
          [] class = "dcat:Distribution" ->
                [mandatory |-> <<>>, recommended |-> <<"dct:description">>, optional |-> <<>>]
          [] class = "dcat:CatalogRecord" ->
                [mandatory |-> <<>>, optional |-> <<"dct:publisher">>]]

entity_type_map ==
    [class \in {ClassOrder[i] : i \in 1..Len(ClassOrder)} |->
        CASE class = "dcat:Catalog" -> "catalogs"
          [] class = "dcat:Dataset" -> "datasets"
          [] class = "dcat:Distribution" -> "distributions"
          [] class = "dcat:CatalogRecord" -> "records"]

\* the key f"{property_uri} ({entity_type})"
PropertyKey(property_uri, entity_type) == <<property_uri, entity_type>>

\* (changed) the mandatory properties are analysed a second time
CallsOfClassRepeated(class_name) ==
    LET properties == mobility_spec[class_name]
        tier(list) == [i \in 1..Len(list) |-> <<list[i], class_name>>]
    IN  tier(properties.mandatory)
          \o (IF "recommended" \in DOMAIN properties
              THEN tier(properties.recommended) ELSE <<>>)
          \o tier(properties.optional)
          \o tier(properties.mandatory)

\* the calls of the loop of analyze_all_properties for one class, in order
CallsOfClass(class_name) ==
    LET properties == mobility_spec[class_name]
        tier(list) == [i \in 1..Len(list) |-> <<list[i], class_name>>]
    IN  tier(properties.mandatory)
          \o (IF "recommended" \in DOMAIN properties
              THEN tier(properties.recommended) ELSE <<>>)
          \o tier(properties.optional)

RECURSIVE CallsFrom(_)
CallsFrom(i) ==
    IF i > Len(ClassOrder) THEN <<>>
    ELSE CallsOfClass(ClassOrder[i]) \o CallsFrom(i + 1)

AllCalls == CallsFrom(1)

\* entities.get(entity_list_key, [])
EntityList(entities, entity_list_key) ==
    IF entity_list_key \in DOMAIN entities THEN entities[entity_list_key] ELSE <<>>

\* the observation stored for a catalog without entities of the class
ZeroObservation == [entities_with_property |-> 0, total_entities |-> 0]

\* the count read from the reply of the COUNT query, 0 when there is none
CountOf(result) ==
    IF result.ok /\ result.rows # <<>> THEN Head(result.rows).count ELSE 0

\* (changed) a failed query is stored like an empty entity list
ObservationFailureAsEmpty(entity_list, answer) ==
    IF entity_list = <<>> \/ ~answer.result.ok
    THEN ZeroObservation
    ELSE [entities_with_property |-> CountOf(answer.result),
          total_entities         |-> Len(entity_list)]

\* the observation analyze_property stores for one catalog
Observation(entity_list, answer) ==
    IF entity_list = <<>>
    THEN ZeroObservation
    ELSE [entities_with_property |-> CountOf(answer.result),
          total_entities         |-> Len(entity_list)]

\* (changed) the query is sent before the entity list is looked at
QueriedEveryCatalog(entities_of, entity_list_key) == DOMAIN entities_of

\* the catalogs a call sends its queries for: those with entities of the class
Queried(entities_of, entity_list_key) ==
    {c \in DOMAIN entities_of : EntityList(entities_of[c], entity_list_key) # <<>>}

\* what a step records for a catalog it sends no query for
NoQuery == [sent |-> FALSE]

\* every way to pick one element of options[c] for each c
RECURSIVE Choices(_)
Choices(options) ==
    IF DOMAIN options = {} THEN {EmptyDict}
    ELSE LET c    == CHOOSE x \in DOMAIN options : TRUE
             rest == [x \in DOMAIN options \ {c} |-> options[x]]
         IN  {Put(f, c, a) : f \in Choices(rest), a \in options[c]}

\* one answer per catalog: NoQuery where no query is sent
CountAnswers(entities_of, entity_list_key) ==
    Choices([c \in DOMAIN entities_of |->
                IF c \in Queried(entities_of, entity_list_key)
                THEN {[sent |-> TRUE, result |-> r] :
                        r \in CountReplies(EntityList(entities_of[c], entity_list_key))}
                ELSE {NoQuery}])

\* (changed) a count is added to the one the key already holds
StoreAllAccumulating(res, key, obs_of) ==
    [c \in DOMAIN res \cup DOMAIN obs_of |->
        IF c \in DOMAIN obs_of
        THEN LET old == IF c \in DOMAIN res THEN res[c] ELSE EmptyDict
                 new == IF key \in DOMAIN old
                        THEN [obs_of[c] EXCEPT !.entities_with_property
                                                  = @ + old[key].entities_with_property]
                        ELSE obs_of[c]
             IN  Put(old, key, new)
        ELSE res[c]]

\* self.results[catalog][key] = observation, for every catalog of the loop
StoreAll(res, key, obs_of) ==
    [c \in DOMAIN res \cup DOMAIN obs_of |->
        IF c \in DOMAIN obs_of
        THEN Put(IF c \in DOMAIN res THEN res[c] ELSE EmptyDict, key, obs_of[c])
        ELSE res[c]]

(***************************************************************************)
(* DCATVocabularyChecker: values, the decision rule, the display label.    *)
(* A value is the string of its characters, so that startswith('http') is  *)
(* the test the code makes.                                                *)
(***************************************************************************)
startswith(s, prefix) == Len(s) >= Len(prefix) /\ SubSeq(s, 1, Len(prefix)) = prefix

HttpPrefix == <<"h", "t", "t", "p">>

HttpValue(i) == <<"h", "t", "t", "p", ":", ToString(i)>>   \* "http:<i>", an HTTP URI
UrnValue(i)  == <<"u", "r", "n", ":", ToString(i)>>        \* "urn:<i>", a URI of another scheme
TextValue(i) == <<"t", "x", "t", ToString(i)>>             \* "txt<i>", a literal

SmallSetSize == 5      \* len(values) <= 5
TopValues == 5         \* values[:5]
TopShareTenths == 8    \* > 0.8
UriShareTenths == 7    \* > 0.7
CodelistTenths == 5    \* > 0.5

RECURSIVE SumCounts(_)
SumCounts(list) == IF list = <<>> THEN 0 ELSE Head(list).count + SumCounts(Tail(list))

\* values[:n]
Prefix(list, n) == SubSeq(list, 1, IF Len(list) < n THEN Len(list) ELSE n)

\* [v for v in values if v['value'].startswith('http')]
UriValues(list) == SelectSeq(list, LAMBDA v : startswith(v.value, HttpPrefix))

\* (changed) without the test for the empty list
analyze_vocabulary_control_unguarded(list) ==
    LET total_usage      == SumCounts(list)
        top_values_usage == SumCounts(Prefix(list, TopValues))
        uri_values       == UriValues(list)
    IN  IF Len(list) <= SmallSetSize THEN TRUE
        ELSE IF 10 * top_values_usage > TopShareTenths * total_usage THEN TRUE
        ELSE IF 10 * Len(uri_values) > UriShareTenths * Len(list) THEN TRUE
        ELSE FALSE

analyze_vocabulary_control(list) ==
    IF list = <<>> THEN FALSE
    ELSE LET total_usage      == SumCounts(list)
             top_values_usage == SumCounts(Prefix(list, TopValues))
             uri_values       == UriValues(list)
         IN  IF Len(list) <= SmallSetSize THEN TRUE
             ELSE IF 10 * top_values_usage > TopShareTenths * total_usage THEN TRUE
             ELSE IF 10 * Len(uri_values) > UriShareTenths * Len(list) THEN TRUE
             ELSE FALSE

\* the list built from the rows of the value query
ValuesOf(rows) == [i \in 1..Len(rows) |-> [value |-> rows[i].value, count |-> rows[i].count]]

\* the observation check_property_vocabulary stores (total is the field total_<entity_type>)
VocabularyObservation(entity_list, total_entities_with_property, list) ==
    [total                  |-> Len(entity_list),
     entities_with_property |-> total_entities_with_property,
     values_found           |-> list,
     unique_values          |-> Len(list),
     has_controlled_vocab   |-> analyze_vocabulary_control(list)]

\* the count read from the reply of the second query, 0 when there is none
TotalWithProperty(count_result) ==
    IF count_result.ok /\ count_result.rows # <<>>
    THEN Head(count_result.rows).total_with_property ELSE 0

_get_vocabulary_info(data) ==
    IF data.unique_values = 0 THEN "No Values"
    ELSE IF data.has_controlled_vocab
         THEN IF data.values_found # <<>>
              THEN IF 10 * Len(UriValues(data.values_found))
                        > CodelistTenths * Len(data.values_found)
                   THEN "Codelist" ELSE "Controlled"
              ELSE "Controlled"
         ELSE "Free text"

\* the type letter of a cell of _generate_vocabulary_table, "0" for the cell "0% (0)"
TableVocabType(data) ==
    IF data.values_found = <<>> THEN "0"
    ELSE IF data.has_controlled_vocab
         THEN IF 10 * Len(UriValues(data.values_found))
                   > CodelistTenths * Len(data.values_found)
              THEN "C" ELSE "V"
         ELSE "F"

\* the type _generate_extended_vocabulary_report prints, for the observations it lists
ExtendedVocabType(data) ==
    IF data.values_found # <<>> /\ data.has_controlled_vocab
    THEN IF 10 * Len(UriValues(data.values_found))
              > CodelistTenths * Len(data.values_found)
         THEN "Codelist (URI-based)" ELSE "Controlled vocabulary"
    ELSE "not listed"

\* properties_to_check of main, cut to one property; the three classes kept
properties_to_check ==
    [entity_type \in {"datasets", "catalogs", "distributions"} |->
        IF entity_type = "datasets" THEN <<"dcat:theme">> ELSE <<>>]

EntityTypeOrder == <<"datasets", "catalogs", "distributions">>

RECURSIVE ChecksFrom(_)
ChecksFrom(i) ==
    IF i > Len(EntityTypeOrder) THEN <<>>
    ELSE LET entity_type == EntityTypeOrder[i]
             props       == properties_to_check[entity_type]
         IN  [j \in 1..Len(props) |-> <<props[j], entity_type>>] \o ChecksFrom(i + 1)

AllChecks == ChecksFrom(1)

\* the rows the value query may return: an HTTP URI used once, a literal used twice
ValueRows == {[value |-> HttpValue(1), count |-> 1], [value |-> TextValue(1), count |-> 2]}

\* GROUP BY ?value: one row per distinct value, in any order
DistinctValues(rows) == \A i, j \in 1..Len(rows) : rows[i].value = rows[j].value => i = j

ValueReplies == {r \in execute_sparql(ValueRows, MaxRows) : DistinctValues(r.rows)}

TotalReplies(entity_list) ==
    {Failure}
        \cup {Reply(<<[total_with_property |-> k]>>) : k \in 0..(Len(entity_list) + MaxExcess)}

\* the answers to the two queries of check_property_vocabulary, per catalog
VocabularyAnswers(entities_of, entity_type) ==
    Choices([c \in DOMAIN entities_of |->
                IF c \in Queried(entities_of, entity_type)
                THEN {[sent |-> TRUE, result |-> r, count_result |-> k] :
                        r \in ValueReplies,
                        k \in TotalReplies(EntityList(entities_of[c], entity_type))}
                ELSE {NoQuery}])

\* self.results[catalog][key] = observation where the value query was answered
StoreAnswered(res, key, entities_of, entity_type, answers) ==
    LET stored == {c \in Queried(entities_of, entity_type) : answers[c].result.ok}
    IN  StoreAll(res, key,
            [c \in stored |->
                VocabularyObservation(EntityList(entities_of[c], entity_type),
                                      TotalWithProperty(answers[c].count_result),
                                      ValuesOf(answers[c].result.rows))])

(***************************************************************************)
(* The runs: main of property_analysis.py (analyze_all_properties) and     *)
(* main of dcat_vocabulary_checker.py.  get_catalog_entities is the same   *)
(* code in both files.                                                     *)
(***************************************************************************)
NoData == [unique_values |-> 0, has_controlled_vocab |-> FALSE, values_found |-> <<>>]

NoLabels == [table |-> "none", extended |-> "none"]

NoPass == [done |-> FALSE]

Init ==
    /\ script \in {"property_analysis", "vocabulary_checker"}
    /\ pc = "start"
    /\ bindings = <<>>
    /\ catalog_entities = EmptyDict
    /\ worklist = <<>>
    /\ results = EmptyDict
    /\ vocab_results = EmptyDict
    /\ queries = 0
    /\ last = [op |-> "none"]
    /\ printed = <<>>
    /\ values = <<>>
    /\ vocab_data = NoData
    /\ vocab_info = "none"
    /\ vocab_labels = NoLabels
    /\ memo = EmptyDict
    /\ first_pass = NoPass

NoCatalogsMessage ==
    IF script = "property_analysis"
    THEN "No catalogs found in the endpoint"
    ELSE "No catalogs or datasets found in the endpoint"

\* (changed) the caller goes on without testing the dict for emptiness
AfterResolutionUnchecked(entities_of) ==
    LET calls == IF script = "property_analysis" THEN AllCalls
                 ELSE IF script = "vocabulary_checker" THEN AllChecks
                 ELSE worklist IN
    /\ printed' = Append(printed, "Found catalogs")
    /\ worklist' = calls
    /\ pc' = IF calls = <<>> THEN "report" ELSE "analyze"

\* (changed) a graph without any dataset also ends the run
AfterResolutionNeedsDatasets(entities_of) ==
    LET calls == IF script = "property_analysis" THEN AllCalls
                 ELSE IF script = "vocabulary_checker" THEN AllChecks
                 ELSE worklist IN
    IF \A c \in DOMAIN entities_of : entities_of[c].datasets = <<>>
    THEN /\ printed' = Append(printed, NoCatalogsMessage)
         /\ worklist' = <<>>
         /\ pc' = "done"
    ELSE /\ printed' = Append(printed, "Found catalogs")
         /\ worklist' = calls
         /\ pc' = IF calls = <<>> THEN "report" ELSE "analyze"

\* the caller once get_catalog_entities has returned `entities_of`
AfterResolution(entities_of) ==
    LET calls == IF script = "property_analysis" THEN AllCalls
                 ELSE IF script = "vocabulary_checker" THEN AllChecks
                 ELSE worklist IN
    IF DOMAIN entities_of = {}
    THEN /\ printed' = Append(printed, NoCatalogsMessage)
         /\ worklist' = <<>>
         /\ pc' = "done"
    ELSE /\ printed' = Append(printed, "Found catalogs")
         /\ worklist' = calls
         /\ pc' = IF calls = <<>> THEN "report" ELSE "analyze"

\* get_catalog_entities, the catalog query
Discover ==
    /\ pc = "start"
    /\ \E catalog_result \in execute_sparql(CatalogRows, MaxRows) :
          /\ last' = [op |-> "discover", result |-> catalog_result]
          /\ IF catalog_result.ok /\ catalog_result.rows # <<>>
             THEN /\ bindings' = catalog_result.rows
                  /\ pc' = "resolve"
                  /\ UNCHANGED <<worklist, printed>>
             ELSE /\ bindings' = <<>>
                  /\ AfterResolution(EmptyDict)
    /\ catalog_entities' = EmptyDict
    /\ queries' = queries + 1
    /\ UNCHANGED <<script, results, vocab_results, classifyVars>>

\* get_catalog_entities, one catalog row: the new entry and the dataset query
ResolveDatasets ==
    /\ pc = "resolve"
    /\ bindings # <<>>
    /\ "catalog" \in DOMAIN Head(bindings)
    /\ LET catalog == Head(bindings).catalog IN
       \E dataset_result \in execute_sparql(DatasetRows, MaxRows) :
          /\ catalog_entities' = SetEntry(catalog_entities, catalog,
                                          WithDatasets(NewEntry(catalog), dataset_result))
          /\ last' = [op |-> "dataset_query", catalog |-> catalog,
                      result |-> dataset_result]
    /\ queries' = queries + 1
    /\ pc' = "records"
    /\ UNCHANGED <<script, bindings, worklist, results, vocab_results, printed, classifyVars>>

\* get_catalog_entities, the same catalog row: the record query
ResolveRecords ==
    /\ pc = "records"
    /\ LET catalog == Head(bindings).catalog IN
       \E record_result \in execute_sparql(RecordRows, MaxRows) :
          LET entities_of == SetEntry(catalog_entities, catalog,
                                      WithRecords(catalog_entities[catalog], record_result))
          IN  /\ catalog_entities' = entities_of
              /\ last' = [op |-> "record_query", catalog |-> catalog,
                          result |-> record_result]
              /\ IF Tail(bindings) = <<>>
                 THEN AfterResolution(entities_of)
                 ELSE /\ pc' = "resolve"
                      /\ UNCHANGED <<worklist, printed>>
    /\ queries' = queries + 1
    /\ bindings' = Tail(bindings)
    /\ UNCHANGED <<script, results, vocab_results, classifyVars>>

\* one call analyze_property(prop_uri, class_name, catalog_entities)
AnalyzeProperty ==
    /\ script = "property_analysis"
    /\ pc = "analyze"
    /\ worklist # <<>>
    /\ LET property_uri    == Head(worklist)[1]
           entity_type     == Head(worklist)[2]
           entity_list_key == entity_type_map[entity_type]
       IN  \E answers \in CountAnswers(catalog_entities, entity_list_key) :
              /\ results' = StoreAll(results, PropertyKey(property_uri, entity_type),
                                [c \in DOMAIN catalog_entities |->
                                    Observation(EntityList(catalog_entities[c], entity_list_key),
                                                answers[c])])
              /\ queries' = queries + Cardinality(Queried(catalog_entities, entity_list_key))
              /\ last' = [op |-> "analyze_property", property_uri |-> property_uri,
                          entity_type |-> entity_type, answers |-> answers]
    /\ worklist' = Tail(worklist)
    /\ pc' = IF Tail(worklist) = <<>> THEN "report" ELSE "analyze"
    /\ UNCHANGED <<script, bindings, catalog_entities, vocab_results, printed, classifyVars>>

\* generate_property_table
GeneratePropertyTable ==
    /\ script = "property_analysis"
    /\ pc = "report"
    /\ printed' = Append(printed, "MOBILITY DCAT-AP PROPERTY ANALYSIS")
    /\ pc' = "done"
    /\ last' = [op |-> "generate_property_table"]
    /\ UNCHANGED <<script, bindings, catalog_entities, worklist, results, vocab_results,
                   queries, classifyVars>>

\* one call check_property_vocabulary(prop_uri, entity_type, catalog_entities)
CheckPropertyVocabulary ==
    /\ script = "vocabulary_checker"
    /\ pc = "analyze"
    /\ worklist # <<>>
    /\ LET property_uri == Head(worklist)[1]
           entity_type  == Head(worklist)[2]
       IN  \E answers \in VocabularyAnswers(catalog_entities, entity_type) :
              /\ vocab_results' = StoreAnswered(vocab_results,
                                                PropertyKey(property_uri, entity_type),
                                                catalog_entities, entity_type, answers)
              /\ queries' = queries + 2 * Cardinality(Queried(catalog_entities, entity_type))
              /\ last' = [op |-> "check_property_vocabulary", property_uri |-> property_uri,
                          entity_type |-> entity_type, answers |-> answers]
    /\ worklist' = Tail(worklist)
    /\ pc' = IF Tail(worklist) = <<>> THEN "report" ELSE "analyze"
    /\ UNCHANGED <<script, bindings, catalog_entities, results, printed, classifyVars>>

\* generate_unified_report
GenerateUnifiedReport ==
    /\ script = "vocabulary_checker"
    /\ pc = "report"
    /\ printed' = Append(printed, "CONTROLLED VOCABULARY ANALYSIS REPORT")
    /\ pc' = "done"
    /\ last' = [op |-> "generate_unified_report"]
    /\ UNCHANGED <<script, bindings, catalog_entities, worklist, results, vocab_results,
                   queries, classifyVars>>

Next ==
    \/ Discover /\ UNCHANGED passVars
    \/ ResolveDatasets /\ UNCHANGED passVars
    \/ ResolveRecords /\ UNCHANGED passVars
    \/ AnalyzeProperty /\ UNCHANGED passVars
    \/ GeneratePropertyTable /\ UNCHANGED passVars
    \/ CheckPropertyVocabulary /\ UNCHANGED passVars
    \/ GenerateUnifiedReport /\ UNCHANGED passVars

Spec == Init /\ [][Next]_vars

(***************************************************************************)
(* One classification: the list check_property_vocabulary has built from   *)
(* the rows of the value query (lines 143-147) is stored with its flag,    *)
(* then labelled for display.  The lists: up to MaxValues distinct values  *)
(* in the order of the rows, the first k of them HTTP URIs and the others  *)
(* either URNs or literals, each used 1, 2 or 4 times.                     *)
(***************************************************************************)
UsageCounts == {1, 2, 4}

\* the list of n values with these usage counts, the first k of them HTTP URIs
ValueList(n, counts, k, other) ==
    [i \in 1..n |->
        [value |-> IF i <= k THEN HttpValue(i)
                   ELSE IF other = "urn" THEN UrnValue(i) ELSE TextValue(i),
         count |-> counts[i]]]

InitClassify ==
    /\ script = "classification"
    /\ pc = "store"
    /\ bindings = <<>>
    /\ catalog_entities = EmptyDict
    /\ worklist = <<>>
    /\ results = EmptyDict
    /\ vocab_results = EmptyDict
    /\ queries = 0
    /\ last = [op |-> "none"]
    /\ printed = <<>>
    /\ \E n \in 0..MaxValues :
          \E counts \in [1..n -> UsageCounts], k \in 0..n, other \in {"urn", "txt"} :
             values = ValueList(n, counts, k, other)
    /\ vocab_data = NoData
    /\ vocab_info = "none"
    /\ vocab_labels = NoLabels
    /\ memo = EmptyDict
    /\ first_pass = NoPass

runVars == <<script, bindings, catalog_entities, worklist, results, vocab_results,
             queries, printed>>

\* check_property_vocabulary, lines 149-156: the observation with its flag
StoreVocabulary ==
    /\ script = "classification"
    /\ pc = "store"
    /\ vocab_data' = VocabularyObservation(<<"d1">>, IF values = <<>> THEN 0 ELSE 1, values)
    /\ pc' = "label"
    /\ last' = [op |-> "store"]
    /\ UNCHANGED <<runVars, values, vocab_info, vocab_labels>>

\* _get_vocabulary_info on the stored observation
ShowVocabularyInfo ==
    /\ script = "classification"
    /\ pc = "label"
    /\ vocab_info' = _get_vocabulary_info(vocab_data)
    /\ pc' = "done"
    /\ last' = [op |-> "label"]
    /\ UNCHANGED <<runVars, values, vocab_data, vocab_labels>>

\* the same observation in the summary table and in the extended report
ShowReportLabels ==
    /\ script = "classification"
    /\ pc = "done"
    /\ vocab_labels' = [table    |-> TableVocabType(vocab_data),
                        extended |-> ExtendedVocabType(vocab_data)]
    /\ pc' = "reported"
    /\ last' = [op |-> "report"]
    /\ UNCHANGED <<runVars, values, vocab_data, vocab_info>>

NextClassify ==
    \/ StoreVocabulary /\ UNCHANGED passVars
    \/ ShowVocabularyInfo /\ UNCHANGED passVars
    \/ ShowReportLabels /\ UNCHANGED passVars

SpecClassify == InitClassify /\ [][NextClassify]_vars

(***************************************************************************)
(* Properties of the runs (Spec).                                          *)
(***************************************************************************)
NoDuplicates(list) == \A i, j \in 1..Len(list) : list[i] = list[j] => i = j

Elements(list) == {list[i] : i \in 1..Len(list)}

\* the class list of catalog c that the call recorded in `last` looked at
LastList(c) ==
    LET key == IF script = "property_analysis"
               THEN entity_type_map[last.entity_type] ELSE last.entity_type
    IN  IF key \in DOMAIN catalog_entities[c] THEN catalog_entities[c][key] ELSE <<>>

LastKey == <<last.property_uri, last.entity_type>>

\* C1: after analyze_property for a property and a class, every catalog whose
\* list for that class is empty has the observation {0, 0} under the key, and
\* no query was sent for that catalog.
C1_EmptySetStoresZeroWithoutQuery ==
    last.op = "analyze_property" =>
        \A c \in DOMAIN catalog_entities :
            LastList(c) = <<>> =>
                /\ c \in DOMAIN results
                /\ LastKey \in DOMAIN results[c]
                /\ results[c][LastKey] = [entities_with_property |-> 0, total_entities |-> 0]
                /\ ~last.answers[c].sent

\* an analysis in which one catalog has no entity of the class and another has
C1_Witness ==
    /\ last.op = "analyze_property"
    /\ \E c, other \in DOMAIN catalog_entities :
          /\ LastList(c) = <<>>
          /\ results[c][LastKey] = [entities_with_property |-> 0, total_entities |-> 0]
          /\ LastList(other) # <<>>
          /\ last.answers[other].sent

\* C2: when the count query of analyze_property fails for a catalog, that
\* catalog's observation is {0, length of its list}; the run goes on to the next
\* call or to the report; every other catalog's observation for the property is
\* what its own reply gives, and the observations of other properties are left
\* as they were.
C2_FailedCountQuery ==
    [][last'.op = "analyze_property" =>
          LET key == <<last'.property_uri, last'.entity_type>>
              list(c) == catalog_entities[c][entity_type_map[last'.entity_type]]
          IN  /\ pc' \in {"analyze", "report"}
              /\ catalog_entities' = catalog_entities
              /\ \A c \in DOMAIN catalog_entities :
                    LET answer == last'.answers[c] IN
                    /\ (answer.sent /\ ~answer.result.ok) =>
                          results'[c][key] = [entities_with_property |-> 0,
                                              total_entities |-> Len(list(c))]
                    /\ (answer.sent /\ answer.result.ok) =>
                          results'[c][key] =
                              [entities_with_property |-> Head(answer.result.rows).count,
                               total_entities |-> Len(list(c))]
                    /\ c \in DOMAIN results =>
                          \A k \in DOMAIN results[c] \ {key} :
                              results'[c][k] = results[c][k]]_vars

\* the count query failed for one catalog and was answered for another, after
\* an earlier property had been analysed
C2_Witness ==
    /\ last.op = "analyze_property"
    /\ \E c, other \in DOMAIN catalog_entities :
          /\ last.answers[c].sent /\ ~last.answers[c].result.ok
          /\ results[c][LastKey].entities_with_property = 0
          /\ results[c][LastKey].total_entities > 0
          /\ last.answers[other].sent /\ last.answers[other].result.ok
          /\ results[other][LastKey].entities_with_property > 0
          /\ DOMAIN results[c] # {LastKey}

\* C3: every stored observation has 0 <= entities_with_property <= total,
\* whatever count the endpoint returns, in both scripts.
C3_CountWithinTotal ==
    /\ \A c \in DOMAIN results : \A k \in DOMAIN results[c] :
          /\ 0 <= results[c][k].entities_with_property
          /\ results[c][k].entities_with_property <= results[c][k].total_entities
    /\ \A c \in DOMAIN vocab_results : \A k \in DOMAIN vocab_results[c] :
          /\ 0 <= vocab_results[c][k].entities_with_property
          /\ vocab_results[c][k].entities_with_property <= vocab_results[c][k].total

\* C4: when the catalog query fails, the graph is empty, that query is the only
\* one sent, no observation is stored, the "no catalogs" message is all that is
\* reported, and the run has ended.
C4_DiscoveryFailure ==
    (last.op = "discover" /\ ~last.result.ok) =>
        /\ catalog_entities = EmptyDict
        /\ queries = 1
        /\ results = EmptyDict
        /\ vocab_results = EmptyDict
        /\ worklist = <<>>
        /\ pc = "done"
        /\ printed = <<IF script = "property_analysis"
                       THEN "No catalogs found in the endpoint"
                       ELSE "No catalogs or datasets found in the endpoint">>

C4_Witness ==
    /\ last.op = "discover"
    /\ ~last.result.ok
    /\ pc = "done"
    /\ queries = 1

\* the catalogs discovered: those resolved and those still to resolve
Discovered(rows, entities_of) ==
    DOMAIN entities_of \cup {rows[i].catalog : i \in 1..Len(rows)}

\* C5: a failed dataset query leaves the catalog in the graph with no dataset
\* and no distribution, a failed record query leaves it with no record and its
\* other lists as they are; resolution goes on, no discovered catalog is dropped
\* and the entries of the other catalogs are not touched.
C5_FailedContainerQuery ==
    [][last'.op \in {"dataset_query", "record_query"} =>
          LET catalog == last'.catalog IN
          /\ catalog \in DOMAIN catalog_entities'
          /\ (last'.op = "dataset_query" /\ ~last'.result.ok) =>
                /\ catalog_entities'[catalog].catalogs = <<catalog>>
                /\ catalog_entities'[catalog].datasets = <<>>
                /\ catalog_entities'[catalog].distributions = <<>>
                /\ pc' = "records"
          /\ (last'.op = "record_query" /\ ~last'.result.ok) =>
                /\ catalog_entities'[catalog].records = <<>>
                /\ catalog_entities'[catalog].datasets = catalog_entities[catalog].datasets
                /\ catalog_entities'[catalog].distributions
                      = catalog_entities[catalog].distributions
                /\ pc' \in {"resolve", "analyze", "report"}
          /\ Discovered(bindings, catalog_entities)
                \subseteq Discovered(bindings', catalog_entities')
          /\ pc' \in {"analyze", "report"} => bindings' = <<>>
          /\ \A c \in DOMAIN catalog_entities \ {catalog} :
                /\ c \in DOMAIN catalog_entities'
                /\ catalog_entities'[c] = catalog_entities[c]]_vars

\* the record query of the last catalog failed, resolution is over, and another
\* catalog keeps the datasets it was resolved with
C5_Witness ==
    /\ last.op = "record_query"
    /\ ~last.result.ok
    /\ pc \in {"analyze", "report"}
    /\ catalog_entities[last.catalog].records = <<>>
    /\ \E c \in DOMAIN catalog_entities \ {last.catalog} :
          catalog_entities[c].datasets # <<>>

\* C6: no list of the graph holds an identifier twice, whatever rows the
\* endpoint returned; an answered query leaves exactly the identifiers of its
\* rows in the lists.
C6_NoDuplicateIdentifiers ==
    /\ \A c \in DOMAIN catalog_entities :
          /\ NoDuplicates(catalog_entities[c].catalogs)
          /\ NoDuplicates(catalog_entities[c].datasets)
          /\ NoDuplicates(catalog_entities[c].distributions)
          /\ NoDuplicates(catalog_entities[c].records)
    /\ (last.op = "dataset_query" /\ last.result.ok) =>
          LET rows == last.result.rows IN
          /\ Elements(catalog_entities[last.catalog].datasets)
                = {rows[i].dataset : i \in 1..Len(rows)}
          /\ Elements(catalog_entities[last.catalog].distributions)
                = {rows[i].distribution :
                      i \in {j \in 1..Len(rows) : "distribution" \in DOMAIN rows[j]}}
    /\ (last.op = "record_query" /\ last.result.ok) =>
          LET rows == last.result.rows IN
          Elements(catalog_entities[last.catalog].records)
              = {rows[i].record : i \in 1..Len(rows)}

\* the dataset query returned the same dataset in two rows and the list holds
\* it once
C6_Witness ==
    /\ last.op = "dataset_query"
    /\ last.result.ok
    /\ Len(last.result.rows) = 2
    /\ last.result.rows[1].dataset = last.result.rows[2].dataset
    /\ catalog_entities[last.catalog].datasets = <<last.result.rows[1].dataset>>

(***************************************************************************)
(* Properties of one classification (SpecClassify).                        *)
(***************************************************************************)
\* a value that begins with a URI scheme and its colon
UriShaped(value) == \E i \in 2..Len(value) : value[i] = ":"

UriShapedCount(list) == Cardinality({i \in 1..Len(list) : UriShaped(list[i].value)})

\* the usage of the k most used values of the list
RECURSIVE HighestUsage(_, _)
HighestUsage(list, k) ==
    IF k = 0 \/ list = <<>> THEN 0
    ELSE LET i == CHOOSE x \in 1..Len(list) :
                     \A y \in 1..Len(list) : list[y].count <= list[x].count
         IN  list[i].count
               + HighestUsage([j \in 1..(Len(list) - 1) |->
                                  IF j < i THEN list[j] ELSE list[j + 1]], k - 1)

TotalUsage(list) == HighestUsage(list, Len(list))

\* C7: for every list of values, the stored flag is the result of the rule:
\* no value -> not controlled; five values or fewer -> controlled; the five most
\* used values hold more than 80% of the usage -> controlled; more than 70% of
\* the values are URI-shaped -> controlled; otherwise not controlled.
C7_DecisionRule ==
    pc # "store" =>
        vocab_data.has_controlled_vocab
            = IF Len(values) = 0 THEN FALSE
              ELSE IF Len(values) <= 5 THEN TRUE
              ELSE IF 10 * HighestUsage(values, 5) > 8 * TotalUsage(values) THEN TRUE
              ELSE IF 10 * UriShapedCount(values) > 7 * Len(values) THEN TRUE
              ELSE FALSE

\* C8: with one to five values the stored flag is true, whatever the usage
\* counts and whatever the values look like; with no value it is false.
C8_SmallSetsControlled ==
    pc # "store" =>
        /\ (1 <= Len(values) /\ Len(values) <= 5) => vocab_data.has_controlled_vocab = TRUE
        /\ Len(values) = 0 => vocab_data.has_controlled_vocab = FALSE

\* five literal values of unequal usage, stored as controlled
C8_Witness ==
    /\ pc = "label"
    /\ Len(values) = 5
    /\ UriShapedCount(values) = 0
    /\ values[1].count # values[5].count
    /\ vocab_data.has_controlled_vocab

\* C9: with exactly six values, the flag is true when the five most used
\* hold 90% of the usage, false when they hold 60% and fewer than 70% of the
\* values are URI-shaped, and a share of exactly 80% does not make the flag true
\* unless the URI share does.
C9_SixValues ==
    (pc # "store" /\ Len(values) = 6) =>
        LET top   == HighestUsage(values, 5)
            total == TotalUsage(values)
            uris  == UriShapedCount(values)
        IN  /\ 10 * top = 9 * total => vocab_data.has_controlled_vocab
            /\ (10 * top = 6 * total /\ 10 * uris < 7 * 6) => ~vocab_data.has_controlled_vocab
            /\ (10 * top = 8 * total /\ 10 * uris <= 7 * 6) => ~vocab_data.has_controlled_vocab

\* C10: eight values, all of them URI-shaped: the flag is true and the label
\* shown is the codelist label, whatever the usage counts.
C10_EightUriValues ==
    (pc = "done" /\ Len(values) = 8 /\ UriShapedCount(values) = 8) =>
        /\ vocab_data.has_controlled_vocab
        /\ vocab_info = "Codelist"

\* C11: a controlled observation is labelled codelist exactly when more than
\* half of its values are URI-shaped and controlled vocabulary otherwise, the
\* three places that derive the label agree, and an observation that is not
\* controlled is never labelled codelist.
C11_CodelistLabel ==
    (pc = "reported" /\ Len(values) > 0) =>
        LET codelist == 2 * UriShapedCount(values) > Len(values) IN
        /\ vocab_data.has_controlled_vocab =>
              /\ vocab_info = (IF codelist THEN "Codelist" ELSE "Controlled")
              /\ vocab_labels.table = (IF codelist THEN "C" ELSE "V")
              /\ vocab_labels.extended = (IF codelist THEN "Codelist (URI-based)"
                                                      ELSE "Controlled vocabulary")
        /\ ~vocab_data.has_controlled_vocab =>
              /\ vocab_info # "Codelist"
              /\ vocab_labels.table # "C"
              /\ vocab_labels.extended # "Codelist (URI-based)"

\* the key of the call recorded in `last` holds no observation for catalog c
LastKeyAbsent(c) == c \notin DOMAIN vocab_results \/ LastKey \notin DOMAIN vocab_results[c]

\* C12: check_property_vocabulary sends no query and stores no observation for
\* a catalog whose list for the class is empty, where analyze_property stores
\* {0, 0}; over the same graph the key is absent from the vocabulary results
\* exactly for the catalogs for which the compliance results hold {0, 0}, that
\* is exactly for the catalogs with an empty list.
C12_AbsentExactlyWhereEmpty ==
    /\ last.op = "check_property_vocabulary" =>
          \A c \in DOMAIN catalog_entities :
              /\ LastList(c) = <<>> => (~last.answers[c].sent /\ LastKeyAbsent(c))
              /\ LastKeyAbsent(c) => LastList(c) = <<>>
    /\ last.op = "analyze_property" =>
          \A c \in DOMAIN catalog_entities :
              (results[c][LastKey] = [entities_with_property |-> 0, total_entities |-> 0])
                  <=> LastList(c) = <<>>

\* C17: when the value query of check_property_vocabulary fails for a catalog
\* with entities of the class, an observation is stored all the same: no value,
\* unique_values 0, not controlled.
C17_FailedValueQueryStored ==
    last.op = "check_property_vocabulary" =>
        \A c \in DOMAIN catalog_entities :
            (last.answers[c].sent /\ ~last.answers[c].result.ok) =>
                /\ ~LastKeyAbsent(c)
                /\ vocab_results[c][LastKey].values_found = <<>>
                /\ vocab_results[c][LastKey].unique_values = 0
                /\ vocab_results[c][LastKey].has_controlled_vocab = FALSE

(***************************************************************************)
(* Calls made directly on an instance: any sequence of up to MaxCalls      *)
(* calls of analyze_property (or of check_property_vocabulary) over a      *)
(* graph get_catalog_entities has returned, the same call allowed more     *)
(* than once.                                                              *)
(***************************************************************************)
MaxCalls == 2

\* graphs as get_catalog_entities returns them
ResolvedGraphs ==
    {Put(EmptyDict, "c1", WithDatasets(NewEntry("c1"), Reply(<<[dataset |-> "d1"]>>))),
     Put(Put(EmptyDict, "c1", WithDatasets(NewEntry("c1"), Reply(<<[dataset |-> "d1"]>>))),
         "c2", WithDatasets(NewEntry("c2"), Failure))}

\* the (property, class) arguments a caller may pass
CallArguments ==
    IF script = "property_analysis"
    THEN {<<"dct:publisher", "dcat:Dataset">>, <<"dct:title", "dcat:Dataset">>,
          <<"dct:publisher", "dcat:CatalogRecord">>}
    ELSE {<<"dcat:theme", "datasets">>, <<"dct:language", "datasets">>,
          <<"dct:language", "catalogs">>}

InitCalls ==
    /\ script \in {"property_analysis", "vocabulary_checker"}
    /\ pc = "analyze"
    /\ bindings = <<>>
    /\ catalog_entities \in ResolvedGraphs
    /\ \E n \in 1..MaxCalls : worklist \in [1..n -> CallArguments]
    /\ results = EmptyDict
    /\ vocab_results = EmptyDict
    /\ queries = 0
    /\ last = [op |-> "none"]
    /\ printed = <<>>
    /\ values = <<>>
    /\ vocab_data = NoData
    /\ vocab_info = "none"
    /\ vocab_labels = NoLabels
    /\ memo = EmptyDict
    /\ first_pass = NoPass

NextCalls ==
    \/ AnalyzeProperty /\ UNCHANGED passVars
    \/ CheckPropertyVocabulary /\ UNCHANGED passVars
    \/ GeneratePropertyTable /\ UNCHANGED passVars
    \/ GenerateUnifiedReport /\ UNCHANGED passVars

SpecCalls == InitCalls /\ [][NextCalls]_vars

\* C13: an observation, once stored under a key, is never replaced, whatever
\* calls follow, the same call repeated included.
C13_WriteOnce ==
    [][/\ \A c \in DOMAIN results : \A k \in DOMAIN results[c] :
             /\ c \in DOMAIN results'
             /\ k \in DOMAIN results'[c]
             /\ results'[c][k] = results[c][k]
       /\ \A c \in DOMAIN vocab_results : \A k \in DOMAIN vocab_results[c] :
             /\ c \in DOMAIN vocab_results'
             /\ k \in DOMAIN vocab_results'[c]
             /\ vocab_results'[c][k] = vocab_results[c][k]]_vars

\* the (property, class) pairs of the specification: dct:publisher mandatory for
\* datasets, dct:description recommended for distributions, dct:publisher
\* optional for catalog records, a class that has no recommended list
SpecifiedPairs ==
    {<<"dct:publisher", "dcat:Dataset">>, <<"dct:description", "dcat:Distribution">>,
     <<"dct:publisher", "dcat:CatalogRecord">>}

\* C14: in a run of analyze_all_properties over a graph that is not empty, an
\* observation, once stored, keeps its value to the end of the run, and when
\* the loop ends every catalog holds one observation for each pair of the
\* specification and for nothing else.
C14_CreatedOnceForEveryPair ==
    [][script = "property_analysis" =>
          /\ \A c \in DOMAIN results : \A k \in DOMAIN results[c] :
                /\ c \in DOMAIN results'
                /\ k \in DOMAIN results'[c]
                /\ results'[c][k] = results[c][k]
          /\ (pc = "analyze" /\ pc' = "report") =>
                /\ DOMAIN results' = DOMAIN catalog_entities
                /\ \A c \in DOMAIN catalog_entities : DOMAIN results'[c] = SpecifiedPairs]_vars

\* the end of a run over two catalogs, with a property found on a dataset
C14_Witness ==
    /\ script = "property_analysis"
    /\ pc = "done"
    /\ Cardinality(DOMAIN results) = 2
    /\ \A c \in DOMAIN results : DOMAIN results[c] = SpecifiedPairs
    /\ \E c \in DOMAIN results :
          results[c][<<"dct:publisher", "dcat:Dataset">>].entities_with_property > 0

(***************************************************************************)
(* An endpoint that may also answer with rows that lack the binding the    *)
(* code reads.  binding['catalog']['value'] and the like raise KeyError,   *)
(* nothing catches it, and the script ends with a traceback: pc becomes    *)
(* "crashed", no report is printed, and what the call had stored in memory *)
(* so far is lost with the process.                                        *)
(***************************************************************************)
\* a row without the binding the code reads
MalformedRow == [unexpected |-> "x"]

Malformed(result) == result.ok /\ \E i \in 1..Len(result.rows) : result.rows[i] = MalformedRow

\* the replies to a query that hold at least one such row
MalformedReplies(rowset, n) ==
    {r \in execute_sparql(rowset \cup {MalformedRow}, n) : Malformed(r)}

\* the catalog query answered with a malformed row: the loop of line 48 starts
DiscoverMalformed ==
    /\ pc = "start"
    /\ \E catalog_result \in MalformedReplies(CatalogRows, MaxRows) :
          /\ last' = [op |-> "discover", result |-> catalog_result]
          /\ bindings' = catalog_result.rows
    /\ pc' = "resolve"
    /\ catalog_entities' = EmptyDict
    /\ queries' = queries + 1
    /\ UNCHANGED <<script, worklist, results, vocab_results, printed, classifyVars>>

\* line 49 on a row without 'catalog'
ResolveMalformedRow ==
    /\ pc = "resolve"
    /\ bindings # <<>>
    /\ "catalog" \notin DOMAIN Head(bindings)
    /\ pc' = "crashed"
    /\ last' = [op |-> "catalog_row", result |-> Reply(<<Head(bindings)>>)]
    /\ UNCHANGED <<script, bindings, catalog_entities, worklist, results, vocab_results,
                   queries, printed, classifyVars>>

\* line 78 on a row without 'dataset'
ResolveDatasetsMalformed ==
    /\ pc = "resolve"
    /\ bindings # <<>>
    /\ "catalog" \in DOMAIN Head(bindings)
    /\ \E dataset_result \in MalformedReplies(DatasetRows, MaxRows) :
          last' = [op |-> "dataset_query", catalog |-> Head(bindings).catalog,
                   result |-> dataset_result]
    /\ queries' = queries + 1
    /\ pc' = "crashed"
    /\ UNCHANGED <<script, bindings, catalog_entities, worklist, results, vocab_results,
                   printed, classifyVars>>

\* line 99 on a row without 'record'
ResolveRecordsMalformed ==
    /\ pc = "records"
    /\ \E record_result \in MalformedReplies(RecordRows, MaxRows) :
          last' = [op |-> "record_query", catalog |-> Head(bindings).catalog,
                   result |-> record_result]
    /\ queries' = queries + 1
    /\ pc' = "crashed"
    /\ UNCHANGED <<script, bindings, catalog_entities, worklist, results, vocab_results,
                   printed, classifyVars>>

\* line 245 on a row without 'count'
AnalyzePropertyMalformed ==
    /\ script = "property_analysis"
    /\ pc = "analyze"
    /\ worklist # <<>>
    /\ \E c \in Queried(catalog_entities, entity_type_map[Head(worklist)[2]]) :
          last' = [op |-> "analyze_property", property_uri |-> Head(worklist)[1],
                   entity_type |-> Head(worklist)[2], catalog |-> c,
                   result |-> Reply(<<MalformedRow>>)]
    /\ queries' = queries + 1
    /\ pc' = "crashed"
    /\ UNCHANGED <<script, bindings, catalog_entities, worklist, results, vocab_results,
                   printed, classifyVars>>

\* line 140 on a row without 'total_with_property', lines 145-146 on a row
\* without 'value' or 'count'
CheckPropertyVocabularyMalformed ==
    /\ script = "vocabulary_checker"
    /\ pc = "analyze"
    /\ worklist # <<>>
    /\ \E c \in Queried(catalog_entities, Head(worklist)[2]) :
       \E result \in MalformedReplies(ValueRows, MaxRows) \cup {Reply(<<MalformedRow>>)} :
          last' = [op |-> "check_property_vocabulary", property_uri |-> Head(worklist)[1],
                   entity_type |-> Head(worklist)[2], catalog |-> c, result |-> result]
    /\ queries' = queries + 2
    /\ pc' = "crashed"
    /\ UNCHANGED <<script, bindings, catalog_entities, worklist, results, vocab_results,
                   printed, classifyVars>>

NextMalformed ==
    \/ Next
    \/ DiscoverMalformed /\ UNCHANGED passVars
    \/ ResolveMalformedRow /\ UNCHANGED passVars
    \/ ResolveDatasetsMalformed /\ UNCHANGED passVars
    \/ ResolveRecordsMalformed /\ UNCHANGED passVars
    \/ AnalyzePropertyMalformed /\ UNCHANGED passVars
    \/ CheckPropertyVocabularyMalformed /\ UNCHANGED passVars

SpecMalformed == Init /\ [][NextMalformed]_vars

\* C15: a reply with a row that lacks the binding the code reads is handled as a
\* failure of that query: no exception escapes, the outcome is the empty or zero
\* one of the failure, and the run goes on.
C15_MalformedAsFailure ==
    /\ pc # "crashed"
    /\ ("result" \in DOMAIN last /\ Malformed(last.result)) =>
          /\ last.op = "discover" =>
                (catalog_entities = EmptyDict /\ bindings = <<>> /\ pc = "done")
          /\ last.op = "dataset_query" =>
                (catalog_entities[last.catalog].datasets = <<>> /\ pc = "records")
          /\ last.op = "record_query" =>
                (catalog_entities[last.catalog].records = <<>>
                    /\ pc \in {"resolve", "analyze", "report"})
          /\ last.op = "analyze_property" =>
                /\ results[last.catalog][LastKey].entities_with_property = 0
                /\ pc \in {"analyze", "report"}
          /\ last.op = "check_property_vocabulary" => pc \in {"analyze", "report"}

ReportPrinted ==
    /\ printed # <<>>
    /\ printed[Len(printed)] = (IF script = "property_analysis"
                                THEN "MOBILITY DCAT-AP PROPERTY ANALYSIS"
                                ELSE "CONTROLLED VOCABULARY ANALYSIS REPORT")

\* the steps a run still has to take: two queries for each catalog row left, one
\* step for each configured call left, and the report
Remaining ==
    2 * Len(bindings) - (IF pc = "records" THEN 1 ELSE 0)
      + (IF pc \in {"resolve", "records"}
         THEN (IF script = "property_analysis" THEN 3 ELSE 1)
         ELSE Len(worklist))
      + (IF pc = "done" THEN 0 ELSE 1)

\* C16: once the catalog query has returned at least one catalog, whatever the
\* later queries answer the run is never stuck before its end, every step
\* brings it nearer to the end, and it ends with the report printed, every
\* catalog resolved and every configured call made.
C16_RunReachesReport ==
    /\ []((pc \notin {"start", "done"}) => ENABLED Next)
    /\ [][pc # "start" => Remaining' < Remaining]_vars
    /\ []((pc = "done" /\ catalog_entities # EmptyDict) =>
             /\ ReportPrinted
             /\ bindings = <<>>
             /\ worklist = <<>>
             /\ script = "property_analysis" =>
                   \A c \in DOMAIN catalog_entities : DOMAIN results[c] = SpecifiedPairs)

\* the report of a vocabulary run in which every later query failed
C16_Witness ==
    /\ pc = "done"
    /\ ReportPrinted
    /\ script = "vocabulary_checker"
    /\ queries = 5
    /\ \A c \in DOMAIN catalog_entities :
          catalog_entities[c].datasets = <<>> /\ catalog_entities[c].records = <<>>

(***************************************************************************)
(* An endpoint that may also stop answering.  requests.post is called      *)
(* without a timeout (line 24), so the call then never returns: pc becomes *)
(* "blocked" and no step follows.                                          *)
(***************************************************************************)
\* a query is sent and the endpoint never answers it
QueryNeverAnswered ==
    /\ \/ pc \in {"start", "records"}
       \/ pc = "resolve" /\ bindings # <<>>
       \/ /\ pc = "analyze"
          /\ worklist # <<>>
          /\ Queried(catalog_entities,
                     IF script = "property_analysis"
                     THEN entity_type_map[Head(worklist)[2]]
                     ELSE Head(worklist)[2]) # {}
    /\ pc' = "blocked"
    /\ queries' = queries + 1
    /\ last' = [op |-> "no_answer", at |-> pc]
    /\ UNCHANGED <<script, bindings, catalog_entities, worklist, results, vocab_results,
                   printed, classifyVars>>

NextUnresponsive ==
    \/ Next
    \/ QueryNeverAnswered /\ UNCHANGED passVars

SpecUnresponsive == Init /\ [][NextUnresponsive]_vars

\* C18: a query the endpoint never answers ends as a failure after a timeout,
\* so a run that has not ended can always take its next step, wherever the
\* endpoint stops answering.
C18_NoCallBlocksForever ==
    pc # "done" => ENABLED NextUnresponsive

(***************************************************************************)
(* Two passes of a script on one instance against an endpoint that gives   *)
(* the same answer to the same query: memo holds the answer each query     *)
(* text has got, and a query sent again gets that answer.  The endpoint    *)
(* holds one catalog, which the catalog query may return in several rows.  *)
(***************************************************************************)
\* a query text: its kind, the catalog or the entity list it names, the property
Query(kind, about, property) == [kind |-> kind, about |-> about, property |-> property]

\* the queries sent in the step recorded in `step`, each with its reply
Asked(step, entities_of) ==
    LET list(c) == EntityList(entities_of[c],
                              IF script = "property_analysis"
                              THEN entity_type_map[step.entity_type]
                              ELSE step.entity_type)
    IN  CASE step.op = "discover" ->
                {<<Query("catalogs", <<>>, "none"), step.result>>}
          [] step.op = "dataset_query" ->
                {<<Query("datasets", <<step.catalog>>, "none"), step.result>>}
          [] step.op = "record_query" ->
                {<<Query("records", <<step.catalog>>, "none"), step.result>>}
          [] step.op = "analyze_property" ->
                {<<Query("count", list(c), step.property_uri), step.answers[c].result>> :
                    c \in {x \in DOMAIN step.answers : step.answers[x].sent}}
          [] step.op = "check_property_vocabulary" ->
                {<<Query("values", list(c), step.property_uri), step.answers[c].result>> :
                    c \in {x \in DOMAIN step.answers : step.answers[x].sent}}
                \cup
                {<<Query("total", list(c), step.property_uri), step.answers[c].count_result>> :
                    c \in {x \in DOMAIN step.answers : step.answers[x].sent}}
          [] OTHER -> {}

\* the replies of the step are those the endpoint gave before, and are kept
Repeatable ==
    LET asked == Asked(last', catalog_entities) IN
    /\ \A a \in asked : a[1] \in DOMAIN memo => memo[a[1]] = a[2]
    /\ \A a, b \in asked : a[1] = b[1] => a[2] = b[2]
    /\ memo' = [q \in DOMAIN memo \cup {a[1] : a \in asked} |->
                   IF q \in DOMAIN memo THEN memo[q]
                   ELSE (CHOOSE a \in asked : a[1] = q)[2]]
    /\ UNCHANGED first_pass

\* the catalog query of the step returned rows of one catalog only
OneCatalog == \A i \in 1..Len(last'.result.rows) : last'.result.rows[i].catalog = "c1"

\* the script's entry point is called a second time on the same instance
RunAgain ==
    /\ pc = "done"
    /\ ~first_pass.done
    /\ first_pass' = [done |-> TRUE, catalog_entities |-> catalog_entities,
                      results |-> results, vocab_results |-> vocab_results]
    /\ pc' = "start"
    /\ last' = [op |-> "run_again"]
    /\ UNCHANGED <<script, bindings, catalog_entities, worklist, results, vocab_results,
                   queries, printed, classifyVars, memo>>

NextTwice ==
    \/ Discover /\ OneCatalog /\ Repeatable
    \/ ResolveDatasets /\ Repeatable
    \/ ResolveRecords /\ Repeatable
    \/ AnalyzeProperty /\ Repeatable
    \/ GeneratePropertyTable /\ Repeatable
    \/ CheckPropertyVocabulary /\ Repeatable
    \/ GenerateUnifiedReport /\ Repeatable
    \/ RunAgain

SpecTwice == Init /\ [][NextTwice]_vars

\* C19: after a second pass against an endpoint that answers the same query
\* the same way, every catalog has the entity lists of the first pass and the
\* results hold what they held after the first pass.
C19_SecondPassSame ==
    (first_pass.done /\ pc = "done") =>
        /\ catalog_entities = first_pass.catalog_entities
        /\ results = first_pass.results
        /\ vocab_results = first_pass.vocab_results

\* the end of a second pass over a graph with a dataset that has the property
C19_Witness ==
    /\ first_pass.done
    /\ pc = "done"
    /\ script = "property_analysis"
    /\ \E c \in DOMAIN results :
          results[c][<<"dct:publisher", "dcat:Dataset">>].entities_with_property > 0

\* C20: one catalog c1 with the datasets d1 and d2, d1 with the distribution x1,
\* every query answered: resolution gives c1 two datasets and one distribution,
\* and the analysis of a Dataset property that both datasets have stores
\* entities_with_property = 2 and total_entities = 2 for c1.
C20_TwoDatasetsOneDistribution ==
    /\ (/\ last.op = "dataset_query"
        /\ last.catalog = "c1"
        /\ last.result = [ok |-> TRUE,
                          rows |-> <<[dataset |-> "d1", distribution |-> "x1"],
                                     [dataset |-> "d2"]>>])
          => /\ catalog_entities["c1"].datasets = <<"d1", "d2">>
             /\ catalog_entities["c1"].distributions = <<"x1">>
    /\ (/\ last.op = "analyze_property"
        /\ last.entity_type = "dcat:Dataset"
        /\ DOMAIN catalog_entities = {"c1"}
        /\ catalog_entities["c1"].datasets = <<"d1", "d2">>
        /\ catalog_entities["c1"].distributions = <<"x1">>
        /\ last.answers["c1"].result = [ok |-> TRUE, rows |-> <<[count |-> 2]>>])
          => results["c1"][LastKey] = [entities_with_property |-> 2, total_entities |-> 2]

\* the scenario has run: c1 resolved with d1, d2 and x1, the count 2 stored
C20_Witness ==
    /\ last.op = "analyze_property"
    /\ last.entity_type = "dcat:Dataset"
    /\ DOMAIN catalog_entities = {"c1"}
    /\ catalog_entities["c1"].datasets = <<"d1", "d2">>
    /\ catalog_entities["c1"].distributions = <<"x1">>
    /\ last.answers["c1"].result = [ok |-> TRUE, rows |-> <<[count |-> 2]>>]
    /\ results["c1"][LastKey] = [entities_with_property |-> 2, total_entities |-> 2]

\* C21: in every stored vocabulary observation the values are in the order of
\* descending usage count, whatever order the rows came in, and unique_values
\* is the number of values; the first five values are then the five most used.
C21_ValuesSortedByUsage ==
    \A c \in DOMAIN vocab_results : \A k \in DOMAIN vocab_results[c] :
        LET list == vocab_results[c][k].values_found IN
        /\ vocab_results[c][k].unique_values = Len(list)
        /\ \A i, j \in 1..Len(list) : i < j => list[i].count >= list[j].count
        /\ SumCounts(Prefix(list, 5)) = HighestUsage(list, 5)

\* C23: in every stored vocabulary observation the value list is non-empty
\* exactly when entities_with_property is at least one, and
\* entities_with_property is at most the sum of the usage counts of the values,
\* whichever of the two queries of the container succeeded.
C23_CountAgreesWithValues ==
    \A c \in DOMAIN vocab_results : \A k \in DOMAIN vocab_results[c] :
        LET o == vocab_results[c][k] IN
        /\ (o.values_found # <<>>) <=> (o.entities_with_property >= 1)
        /\ o.entities_with_property <= SumCounts(o.values_found)

(***************************************************************************)
(* check_properties(property_config) of dcat_vocabulary_checker.py (lines  *)
(* 178-192): the other entry point of the checker.  It resolves the graph  *)
(* itself, then takes each item of the mapping as (prop_uri, entity_type). *)
(* A Python value is tagged with its type here: a str, or a list, which    *)
(* cannot be a dict key.                                                   *)
(***************************************************************************)
PyStr(s) == [str |-> s]

PyList(l) == [list |-> l]

IsList(v) == "list" \in DOMAIN v

\* the items, in order, of the mappings passed as property_config
PropertyConfigs ==
    { <<>>,
      << <<"dcat:theme", PyStr("datasets")>> >>,
      << <<"datasets", PyList(<<"dct:language">>)>>,
         <<"catalogs", PyList(<<"dct:language">>)>> >>,
      [i \in 1..Len(EntityTypeOrder) |->
          <<EntityTypeOrder[i], PyList(properties_to_check[EntityTypeOrder[i]])>>] }

InitCheckProperties ==
    /\ script = "check_properties"
    /\ pc = "start"
    /\ bindings = <<>>
    /\ catalog_entities = EmptyDict
    /\ worklist \in PropertyConfigs
    /\ results = EmptyDict
    /\ vocab_results = EmptyDict
    /\ queries = 0
    /\ last = [op |-> "none"]
    /\ printed = <<>>
    /\ values = <<>>
    /\ vocab_data = NoData
    /\ vocab_info = "none"
    /\ vocab_labels = NoLabels
    /\ memo = EmptyDict
    /\ first_pass = NoPass

\* one turn of the loop of check_properties: the call
\* check_property_vocabulary(prop_uri, entity_type, catalog_entities) on one
\* item of the mapping.  entities.get(entity_type, []) (line 107) raises
\* TypeError for a list, in the first catalog, before any query is sent.
CheckPropertiesItem ==
    /\ script = "check_properties"
    /\ pc = "analyze"
    /\ worklist # <<>>
    /\ LET prop_uri    == Head(worklist)[1]
           entity_type == Head(worklist)[2]
       IN  IF IsList(entity_type)
           THEN /\ pc' = "raised"
                /\ last' = [op |-> "check_property_vocabulary", property_uri |-> prop_uri,
                            entity_type |-> entity_type, raised |-> "TypeError"]
                /\ UNCHANGED <<worklist, vocab_results, queries>>
           ELSE /\ \E answers \in VocabularyAnswers(catalog_entities, entity_type.str) :
                      /\ vocab_results' = StoreAnswered(vocab_results,
                                              PropertyKey(prop_uri, entity_type.str),
                                              catalog_entities, entity_type.str, answers)
                      /\ queries' = queries
                            + 2 * Cardinality(Queried(catalog_entities, entity_type.str))
                      /\ last' = [op |-> "check_property_vocabulary",
                                  property_uri |-> prop_uri,
                                  entity_type |-> entity_type, answers |-> answers]
                /\ worklist' = Tail(worklist)
                /\ pc' = IF Tail(worklist) = <<>> THEN "report" ELSE "analyze"
    /\ UNCHANGED <<script, bindings, catalog_entities, results, printed, classifyVars>>

\* the last line of check_properties: generate_unified_report
CheckPropertiesReport ==
    /\ script = "check_properties"
    /\ pc = "report"
    /\ printed' = Append(printed, "CONTROLLED VOCABULARY ANALYSIS REPORT")
    /\ pc' = "done"
    /\ last' = [op |-> "generate_unified_report"]
    /\ UNCHANGED <<script, bindings, catalog_entities, worklist, results, vocab_results,
                   queries, classifyVars>>

NextCheckProperties ==
    \/ Discover /\ UNCHANGED passVars
    \/ ResolveDatasets /\ UNCHANGED passVars
    \/ ResolveRecords /\ UNCHANGED passVars
    \/ CheckPropertiesItem /\ UNCHANGED passVars
    \/ CheckPropertiesReport /\ UNCHANGED passVars

SpecCheckProperties == InitCheckProperties /\ [][NextCheckProperties]_vars

\* C22: check_properties, given a mapping from class name to a list of
\* properties, classifies every listed (property, class) pair and stores it
\* under the key of the property and the class: the call on an item
\* (class, list) does not raise, and every stored key is a listed property
\* with a class name.
C22_ListedPairsStored ==
    /\ (pc \in {"analyze", "raised"} /\ worklist # <<>> /\ IsList(Head(worklist)[2]))
          => pc # "raised"
    /\ \A c \in DOMAIN vocab_results : \A k \in DOMAIN vocab_results[c] :
          k[2] \in {EntityTypeOrder[i] : i \in 1..Len(EntityTypeOrder)}

====
